---- MODULE Spec2Model ----
(***************************************************************************)
(* A model of app.py: the depth-bounded recursive crawler                  *)
(* (scrape_website_content), the indexing run (upload_website_data), the   *)
(* query pipeline (query and its helpers) and the chat session (show_ui).  *)
(*                                                                         *)
(* Strings are sequences of one-character strings, so that prefix tests,   *)
(* lower-casing, tokenising and substring tests are computed, not assumed. *)
(***************************************************************************)
EXTENDS Integers, Sequences, FiniteSets, TLC

VARIABLES
    graph,         \* the web: each page's href attributes
    stack,         \* call stack of scrape_recursive
    calls,         \* every call of scrape_recursive so far: [url, depth]
    fetched,       \* every requests.get so far: [url, ok]
    raised,        \* an exception has escaped scrape_recursive
    result,        \* what the outermost scrape_recursive returned
    pc,            \* where the script is: idle, crawl, index, ui, aborted
    store,         \* the faiss_index directory
    messages,      \* st.session_state.messages
    chat_history,  \* st.session_state.chat_history
    trace          \* what the last run of show_ui did

vars == <<graph, stack, calls, fetched, raised, result, pc,
          store, messages, chat_history, trace>>

(***************************************************************************)
(* Bounds of the model.                                                    *)
(***************************************************************************)
\* largest depth budget a crawl is started with (the code's default is 2)
MaxDepth == 2
\* questions submitted in one session
MaxTurns == 2
\* scaled-down chunk_size and chunk_overlap of the text splitter
ChunkSize == 4
ChunkOverlap == 1
\* scaled-down k of the store's default similarity search
TopK == 2

\* cap on the call stack; a crawl needs at most depth + 1 frames
MaxStack == MaxDepth + 3

(***************************************************************************)
(* Strings.                                                                *)
(***************************************************************************)
Range(s) == {s[i] : i \in DOMAIN s}

\* str.startswith
StartsWith(s, p) == Len(p) <= Len(s) /\ SubSeq(s, 1, Len(p)) = p

\* `needle in haystack` on strings
Contains(hay, needle) ==
    \E i \in 1..(Len(hay) - Len(needle) + 1) :
        SubSeq(hay, i, i + Len(needle) - 1) = needle

Max(S) == CHOOSE x \in S : \A y \in S : y <= x

(***************************************************************************)
(* The web: URLs, pages and their anchors.                                 *)
(***************************************************************************)
HTTP == <<"h", "t", "t", "p">>
\* website_url and three more URLs
UrlA  == HTTP \o <<":", "a", "/">>
UrlAP == HTTP \o <<":", "a", "/", "p">>
UrlB  == HTTP \o <<":", "b", "/">>
UrlM  == <<"f", "t", "p", ":", "m">>
RelP  == <<"p">>

Urls == {UrlA, UrlAP, UrlB}

website_url == UrlA

\* href attributes of the anchors of each page, in document order
GraphCycle ==
    (UrlA  :> <<UrlB, RelP, UrlB, UrlM>>) @@
    (UrlB  :> <<UrlA, UrlAP, UrlB>>) @@
    (UrlAP :> <<UrlA>>)

\* the anchors a page may have: none, repeated and relative and non-http
\* ones, links back to the start, to itself and to continuations of a URL
HrefLists ==
    {<<>>,
     <<UrlB, RelP, UrlB, UrlM>>,
     <<UrlA, UrlAP, UrlB>>,
     <<UrlA>>,
     <<UrlAP, RelP>>}

\* every assignment of such anchors to the pages
Graphs == [Urls -> HrefLists]

Hrefs(g, url) == IF url \in DOMAIN g THEN g[url] ELSE <<>>

\* the text extract_content_from_soup returns for the page at url: never empty,
\* since the section labels are always printed
PageText(url) ==
    IF url = UrlA THEN <<"A", "b">>
    ELSE IF url = UrlB THEN <<"c", "d">>
    ELSE <<"b", "c">>

\* "\n\n---\n\n"
Delimiter == <<"-">>

\* urljoin(url, link): an href with a scheme stands for itself, a relative one
\* replaces what follows the last "/" of the base
urljoin(url, link) ==
    IF link = <<>> THEN url
    ELSE IF \E i \in DOMAIN link : link[i] = ":" THEN link
    ELSE LET slashes == {i \in DOMAIN url : url[i] = "/"}
         IN  IF slashes = {} THEN link
             ELSE SubSeq(url, 1, Max(slashes)) \o link

(***************************************************************************)
(* scrape_recursive, one frame of the call stack per active call.          *)
(***************************************************************************)
Frame(u, d) ==
    [url |-> u, depth |-> d, content |-> <<>>, pc |-> "enter",
     fetch |-> "none", links |-> {}, all |-> {}, called |-> <<>>]

top == stack[Len(stack)]

SetTop(f) == [stack EXCEPT ![Len(stack)] = f]

\* if depth < 0: return ""
BaseCase(depth) == depth < 0

\* faulty variant: links are followed at depth 0 too
FollowsLinksAtZero(depth) == depth >= 0
\* if depth > 0:
FollowsLinks(depth) == depth > 0

\* faulty variant: the depth budget is not spent
ChildDepthSame(depth) == depth
\* scrape_recursive(link, depth - 1)
ChildDepth(depth) == depth - 1

\* faulty variant: continuations of the current URL are kept
KeepsAll(full_url, url) == StartsWith(full_url, HTTP)
\* if full_url.startswith('http') and not full_url.startswith(url)
Keeps(full_url, url) ==
    StartsWith(full_url, HTTP) /\ ~StartsWith(full_url, url)

\* links = set() ... links.add(full_url)
CollectLinks(g, url) ==
    {full_url \in {urljoin(url, link) : link \in Range(Hrefs(g, url))} :
        Keeps(full_url, url)}

Enter ==
    /\ pc = "crawl"
    /\ stack # <<>>
    /\ top.pc = "enter"
    /\ stack' = SetTop([top EXCEPT !.pc =
                    IF BaseCase(top.depth) THEN "ret" ELSE "fetch"])
    /\ UNCHANGED <<graph, calls, fetched, raised, result, pc, store,
                   messages, chat_history, trace>>

\* faulty variant: the exception unwinds every active call
PropagateException(stk) == [stack |-> <<>>, raised |-> TRUE]
\* except requests.RequestException: print(...); then return content
OnRequestException(stk) ==
    [stack |-> [stk EXCEPT ![Len(stk)] =
                    [stk[Len(stk)] EXCEPT !.pc = "ret", !.fetch = "fail"]],
     raised |-> FALSE]

\* requests.get / raise_for_status succeed; content += extract(soup)
FetchOk ==
    /\ pc = "crawl"
    /\ stack # <<>>
    /\ top.pc = "fetch"
    /\ top.url \in DOMAIN graph
    /\ fetched' = Append(fetched, [url |-> top.url, ok |-> TRUE])
    /\ LET links == IF FollowsLinks(top.depth)
                    THEN CollectLinks(graph, top.url) ELSE {}
       IN stack' = SetTop([top EXCEPT
                        !.content = top.content \o PageText(top.url),
                        !.fetch = "ok",
                        !.links = links,
                        !.all = links,
                        !.pc = IF FollowsLinks(top.depth) THEN "loop" ELSE "ret"])
    /\ UNCHANGED <<graph, calls, raised, result, pc, store,
                   messages, chat_history, trace>>

\* requests.get or raise_for_status raises a RequestException
FetchFail ==
    /\ pc = "crawl"
    /\ stack # <<>>
    /\ top.pc = "fetch"
    /\ fetched' = Append(fetched, [url |-> top.url, ok |-> FALSE])
    /\ LET out == OnRequestException(stack)
       IN /\ stack' = out.stack
          /\ raised' = out.raised
          /\ pc' = IF out.raised THEN "aborted" ELSE pc
    /\ UNCHANGED <<graph, calls, result, store,
                   messages, chat_history, trace>>

\* for link in links: the next link, in the set's iteration order (any
\* order), is called
Recurse ==
    /\ pc = "crawl"
    /\ stack # <<>>
    /\ top.pc = "loop"
    /\ Len(stack) < MaxStack
    /\ \E link \in top.links :
          /\ stack' = Append(SetTop([top EXCEPT
                                       !.links = top.links \ {link},
                                       !.called = Append(top.called, link),
                                       !.pc = "wait"]),
                             Frame(link, ChildDepth(top.depth)))
          /\ calls' = Append(calls, [url |-> link,
                                     depth |-> ChildDepth(top.depth)])
    /\ UNCHANGED <<graph, fetched, raised, result, pc, store,
                   messages, chat_history, trace>>

\* the loop over links is exhausted
LoopEnd ==
    /\ pc = "crawl"
    /\ stack # <<>>
    /\ top.pc = "loop"
    /\ top.links = {}
    /\ stack' = SetTop([top EXCEPT !.pc = "ret"])
    /\ UNCHANGED <<graph, calls, fetched, raised, result, pc, store,
                   messages, chat_history, trace>>

\* return content: to the caller's  content += "\n\n---\n\n" + ...,  or, from the
\* outermost call, to scrape_website_content's caller
Return ==
    /\ pc = "crawl"
    /\ stack # <<>>
    /\ top.pc = "ret"
    /\ IF Len(stack) = 1
       THEN /\ stack' = <<>>
            /\ result' = top.content
            /\ pc' = "index"
       ELSE LET caller == stack[Len(stack) - 1]
            IN /\ stack' = [SubSeq(stack, 1, Len(stack) - 1)
                               EXCEPT ![Len(stack) - 1] =
                                   [caller EXCEPT
                                       !.content = caller.content \o Delimiter
                                                       \o top.content,
                                       !.pc = "loop"]]
               /\ UNCHANGED <<result, pc>>
    /\ UNCHANGED <<graph, calls, fetched, raised, store,
                   messages, chat_history, trace>>

CrawlNext == Enter \/ FetchOk \/ FetchFail \/ Recurse \/ LoopEnd \/ Return

NoTrace == [kind |-> "none"]

\* no faiss_index directory
NoStore == [present |-> FALSE, docs |-> <<>>]

\* scrape_recursive(url, depth) called with any URL and any depth budget
InitCrawl ==
    /\ graph \in Graphs
    /\ \E u \in Urls, d \in -1..MaxDepth :
          /\ stack = <<Frame(u, d)>>
          /\ calls = <<[url |-> u, depth |-> d]>>
    /\ fetched = <<>>
    /\ raised = FALSE
    /\ result = <<>>
    /\ pc = "crawl"
    /\ store = NoStore
    /\ messages = <<>>
    /\ chat_history = <<>>
    /\ trace = NoTrace

SpecCrawl == InitCrawl /\ [][CrawlNext]_vars

\* the interpreter runs the call to completion
FairCrawl == SpecCrawl /\ WF_vars(CrawlNext)

(***************************************************************************)
(* process_website and upload_website_data: one indexing run.              *)
(***************************************************************************)
\* def scrape_website_content(url, depth=2)
DefaultDepth == 2

\* RecursiveCharacterTextSplitter(chunk_size, chunk_overlap).split_text(text):
\* windows of at most ChunkSize characters, each starting ChunkOverlap
\* characters before the end of the one before; no chunk for an empty text
RECURSIVE split_text(_)
split_text(text) ==
    IF text = <<>> THEN <<>>
    ELSE IF Len(text) <= ChunkSize THEN <<text>>
    ELSE <<SubSeq(text, 1, ChunkSize)>>
            \o split_text(SubSeq(text, ChunkSize - ChunkOverlap + 1, Len(text)))

\* a faiss_index directory left by an earlier run of the program
OldStore == [present |-> TRUE, docs |-> <<<<"o", "l", "d">>>>]

\* faulty variant: the store is written even with no chunk
HasChunksAlways(chunks_with_sources) == TRUE
\* if chunks_with_sources:
HasChunks(chunks_with_sources) == chunks_with_sources # <<>>

\* FAISS.from_texts(text_chunks, ...).save_local("faiss_index")
SavedIndex(old, text_chunks) == [present |-> TRUE, docs |-> text_chunks]

\* the script starts:  upload_website_data(website_url)  calls
\* process_website, which calls scrape_website_content(url)
StartRun ==
    /\ pc = "idle"
    /\ stack' = <<Frame(website_url, DefaultDepth)>>
    /\ calls' = <<[url |-> website_url, depth |-> DefaultDepth]>>
    /\ fetched' = <<>>
    /\ result' = <<>>
    /\ trace' = NoTrace
    /\ pc' = "crawl"
    /\ UNCHANGED <<graph, raised, store, messages, chat_history>>

\* else: print("No valid website data to process.")
UploadSkip ==
    /\ pc = "index"
    /\ ~HasChunks(split_text(result))
    /\ pc' = "ui"
    /\ UNCHANGED <<graph, stack, calls, fetched, raised, result, store,
                   messages, chat_history, trace>>

\* the chunks are embedded and the store is saved
UploadSave ==
    /\ pc = "index"
    /\ HasChunks(split_text(result))
    /\ store' = SavedIndex(store, split_text(result))
    /\ pc' = "ui"
    /\ UNCHANGED <<graph, stack, calls, fetched, raised, result,
                   messages, chat_history, trace>>

\* the embedding provider raises: nothing catches it, the script run ends
\* before save_local and before show_ui
UploadRaises ==
    /\ pc = "index"
    /\ HasChunks(split_text(result))
    /\ pc' = "idle"
    /\ UNCHANGED <<graph, stack, calls, fetched, raised, result, store,
                   messages, chat_history, trace>>

(***************************************************************************)
(* query and its helpers.                                                  *)
(***************************************************************************)
NotFoundMsg ==
    <<"The resource could not be found. Please ensure the data has been correctly uploaded.">>
OopsMsg ==
    <<"Oops, something went wrong while processing your query. Please try again later.">>
NoResultsMsg == <<"I couldn't find any relevant information.">>
ClarifyMsg ==
    <<"I couldn't find a specific answer. Could you please provide more details or ask a different question?">>
SorryMsg == <<"Sorry, I couldn't find any relevant information.">>
FoundHeader == "Here's what I found based on your question:"

\* the text of the provider's first candidate
GenText == "summary"

Questions == {<<"A", " ", "x">>, <<"d", "c", "-">>}

WordChars == {"A", "a", "b", "c", "d", "o", "l", "x"}

\* str.lower
Lower(s) == [i \in DOMAIN s |-> IF s[i] = "A" THEN "a" ELSE s[i]]

\* re.findall(r'\b\w+\b', s): the maximal runs of word characters
Keywords(s) ==
    {SubSeq(s, r[1], r[2]) :
        r \in {q \in (DOMAIN s) \X (DOMAIN s) :
                  /\ q[1] <= q[2]
                  /\ \A k \in q[1]..q[2] : s[k] \in WordChars
                  /\ (q[1] = 1 \/ s[q[1] - 1] \notin WordChars)
                  /\ (q[2] = Len(s) \/ s[q[2] + 1] \notin WordChars)}}

\* if any(keyword in chunk_lower for keyword in keywords)
IsRelevant(question, chunk) ==
    \E keyword \in Keywords(Lower(question)) : Contains(Lower(chunk), keyword)

extract_relevant_information(question, text_chunks) ==
    SelectSeq(text_chunks, LAMBDA chunk : IsRelevant(question, chunk))

None == [none |-> TRUE]
Some(text) == [none |-> FALSE, text |-> text]

\* provider: what model.generate_content does: "text" (a candidate),
\* "empty" (no candidates) or "raise"
reframe_with_gemini(provider) ==
    IF provider = "text" THEN Some(GenText) ELSE None

Returns(value, gen) == [exc |-> "none", value |-> value, gen |-> gen]
Raises(exc, gen) == [exc |-> exc, value |-> <<>>, gen |-> gen]

\* faulty variant: None is formatted into the answer
ConcatFormatsNone(response, summarized_text) ==
    Returns(<<response, IF summarized_text.none THEN "None"
                        ELSE summarized_text.text>>, 1)
\* response += summarized_text: str + None is a TypeError
Concat(response, summarized_text) ==
    IF summarized_text.none THEN Raises("TypeError", 1)
    ELSE Returns(<<response, summarized_text.text>>, 1)

\* gen counts the calls of model.generate_content
generate_natural_language_response(relevant_info, provider) ==
    IF relevant_info = <<>> THEN Returns(SorryMsg, 0)
    ELSE Concat(FoundHeader, reframe_with_gemini(provider))

\* faulty variant: the generation stage is entered with no surviving chunk
GeneratesAlways(relevant_info) == TRUE
\* ... if relevant_info else "I couldn't find a specific answer. ..."
Generates(relevant_info) == relevant_info # <<>>

\* except FileNotFoundError: ...   except Exception: ...
Handle(exc) ==
    [raised |-> FALSE,
     answer |-> IF exc = "FileNotFoundError" THEN NotFoundMsg ELSE OopsMsg]

\* what the collaborators of one query do: the embedding client's
\* constructor, FAISS.load_local, similarity_search (the indexes of the
\* documents it returns) and the generation provider
Envs(st) ==
    [embedOk : BOOLEAN, loadOk : BOOLEAN, searchOk : BOOLEAN,
     hits : {h \in SUBSET (DOMAIN st.docs) : Cardinality(h) <= TopK},
     provider : {"text", "empty", "raise"}]

\* the documents at the indexes in hits, in the store's order
Hits(docs, hits) ==
    [k \in 1..Cardinality(hits) |->
        docs[CHOOSE i \in hits : Cardinality({j \in hits : j < i}) = k - 1]]

Outcome(stage, results, provider, gen, handled) ==
    [stage |-> stage, results |-> results, provider |-> provider,
     gen |-> gen, raised |-> handled.raised, answer |-> handled.answer]

query(question, st, env) ==
    IF ~env.embedOk
    THEN Outcome("embed", <<>>, "unused", 0, Handle("Exception"))
    ELSE IF ~st.present
    THEN Outcome("exists", <<>>, "unused", 0, Handle("FileNotFoundError"))
    ELSE IF ~env.loadOk
    THEN Outcome("load", <<>>, "unused", 0, Handle("Exception"))
    ELSE IF ~env.searchOk
    THEN Outcome("search", <<>>, "unused", 0, Handle("Exception"))
    ELSE LET search_results == Hits(st.docs, env.hits)
             relevant_info ==
                 extract_relevant_information(question, search_results)
         IN IF search_results = <<>>
            THEN Outcome("search", <<>>, "unused", 0,
                         [raised |-> FALSE, answer |-> NoResultsMsg])
            ELSE IF ~Generates(relevant_info)
            THEN Outcome("filter", search_results, "unused", 0,
                         [raised |-> FALSE, answer |-> ClarifyMsg])
            ELSE LET formatted_answer ==
                         generate_natural_language_response(relevant_info,
                                                            env.provider)
                     used == IF formatted_answer.gen = 0 THEN "unused"
                             ELSE env.provider
                 IN IF formatted_answer.exc # "none"
                    THEN Outcome("generate", search_results, used,
                                 formatted_answer.gen,
                                 Handle(formatted_answer.exc))
                    ELSE Outcome("generate", search_results, used,
                                 formatted_answer.gen,
                                 [raised |-> FALSE,
                                  answer |-> formatted_answer.value])

(***************************************************************************)
(* show_ui: one run of the chat page.                                      *)
(***************************************************************************)
\* faulty variant: the user turn is not stored
AppendAssistantOnly(msgs, prompt, answer) ==
    Append(msgs, [role |-> "assistant", content |-> answer])
\* st.session_state.messages.append(user); ....append(assistant)
AppendTurn(msgs, prompt, answer) ==
    msgs \o <<[role |-> "user", content |-> prompt],
              [role |-> "assistant", content |-> answer]>>

\* if st.session_state.messages:  (the reset button is rendered)
ButtonGate(msgs) == msgs # <<>>

\* faulty variant: chat_history survives the reset
ClearMessagesOnly(msgs, history) == [messages |-> <<>>, chat_history |-> history]
\* st.session_state.messages = []; st.session_state.chat_history = []
ResetState(msgs, history) == [messages |-> <<>>, chat_history |-> <<>>]

\* a run with no prompt and no click on a rendered button
ShowIdle ==
    /\ pc = "ui"
    /\ trace' = [kind |-> "load", button |-> ButtonGate(messages)]
    /\ pc' = "idle"
    /\ UNCHANGED <<graph, stack, calls, fetched, raised, result, store,
                   messages, chat_history>>

\* if prompt := st.chat_input(...): query, render, append.  The rendering
\* calls (st.spinner, st.chat_message, st.markdown) are taken not to raise;
\* the except branch of show_ui is then entered only if query raises.
Submit ==
    /\ pc = "ui"
    /\ Len(chat_history) < MaxTurns
    /\ \E prompt \in Questions, env \in Envs(store) :
          LET response == query(prompt, store, env)
          IN /\ IF response.raised
                THEN UNCHANGED <<messages, chat_history>>
                ELSE /\ messages' = AppendTurn(messages, prompt, response.answer)
                     /\ chat_history' =
                            Append(chat_history, <<prompt, response.answer>>)
             /\ trace' = [kind |-> "query", question |-> prompt,
                          present |-> store.present, embedOk |-> env.embedOk,
                          stage |-> response.stage,
                          results |-> response.results,
                          provider |-> response.provider,
                          gen |-> response.gen,
                          raised |-> response.raised,
                          answer |-> response.answer,
                          button |-> ButtonGate(messages')]
    /\ pc' = "idle"
    /\ UNCHANGED <<graph, stack, calls, fetched, raised, result, store>>

\* if st.button("Start New Conversation"): the rendered button was clicked
Reset ==
    /\ pc = "ui"
    /\ ButtonGate(messages)
    /\ LET cleared == ResetState(messages, chat_history)
       IN /\ messages' = cleared.messages
          /\ chat_history' = cleared.chat_history
    /\ trace' = [kind |-> "reset", button |-> TRUE]
    /\ pc' = "idle"
    /\ UNCHANGED <<graph, stack, calls, fetched, raised, result, store>>

Init ==
    /\ graph = GraphCycle
    /\ stack = <<>>
    /\ calls = <<>>
    /\ fetched = <<>>
    /\ raised = FALSE
    /\ result = <<>>
    /\ pc = "idle"
    /\ store \in {NoStore, OldStore}
    /\ messages = <<>>
    /\ chat_history = <<>>
    /\ trace = NoTrace

Next ==
    \/ StartRun
    \/ CrawlNext
    \/ UploadSkip
    \/ UploadSave
    \/ UploadRaises
    \/ ShowIdle
    \/ Submit
    \/ Reset

Spec == Init /\ [][Next]_vars

(***************************************************************************)
(* Properties of the crawler.                                              *)
(***************************************************************************)
IsPrefix(s, t) == Len(s) <= Len(t) /\ SubSeq(t, 1, Len(s)) = s

NoDuplicates(s) == \A i, j \in DOMAIN s : s[i] = s[j] => i = j

Done == pc = "index"

\* every active call but the outermost was made with a depth strictly
\* smaller than its caller's
DepthDecreases ==
    \A i \in 2..Len(stack) : stack[i].depth < stack[i - 1].depth

\* a call with depth < 0 has fetched nothing, has called nothing, and is the
\* innermost active call
NegativeDepthIsLeaf ==
    \A i \in 1..Len(stack) :
        stack[i].depth < 0 =>
            /\ i = Len(stack)
            /\ stack[i].fetch = "none"
            /\ stack[i].called = <<>>

\* C1: whatever the link graph (cycles and self-links included) and the depth
\* budget, the crawl terminates: every recursive call has a depth strictly
\* smaller than its caller's, a call with depth < 0 calls nothing, and the
\* outermost call eventually returns.
C1_CrawlTerminates ==
    /\ [](DepthDecreases /\ NegativeDepthIsLeaf)
    /\ <>Done

\* a crawl over the cyclic graph went round the cycle and returned
C1_Witness ==
    /\ Done
    /\ graph = GraphCycle
    /\ calls[1].depth = MaxDepth
    /\ \E i \in 2..Len(calls) : calls[i].url = calls[1].url

\* C2: crawl(url, -1) returns "" without a fetch; crawl(url, 0) makes exactly
\* one fetch, of url, makes no recursive call, and returns the page's
\* extracted text alone, no delimiter appended ("" when that fetch fails).
C2_BaseCases ==
    /\ calls[1].depth <= 0 => Len(calls) = 1
    /\ calls[1].depth = -1 => fetched = <<>>
    /\ (Done /\ calls[1].depth = -1) => result = <<>>
    /\ (Done /\ calls[1].depth = 0) =>
          /\ Len(fetched) = 1
          /\ fetched[1].url = calls[1].url
          /\ result = IF fetched[1].ok THEN PageText(calls[1].url) ELSE <<>>

\* crawl(url, 0) returned the text of a page that has outbound links
C2_Witness ==
    /\ Done
    /\ calls[1].depth = 0
    /\ fetched[1].ok
    /\ CollectLinks(graph, calls[1].url) # {}
    /\ result = PageText(calls[1].url)

\* C3: a failed fetch is never propagated and never aborts the crawl: the
\* failing call returns "", no caller loses text it had accumulated, and a
\* call returns only after every one of its links has been crawled.
C3_FailuresSwallowed ==
    /\ [](/\ ~raised
          /\ pc # "aborted"
          /\ \A i \in 1..Len(stack) :
                /\ stack[i].fetch = "fail" =>
                      (stack[i].content = <<>> /\ stack[i].pc = "ret")
                /\ (stack[i].fetch = "ok" /\ stack[i].pc = "ret") =>
                      (stack[i].links = {} /\ Range(stack[i].called) = stack[i].all))
    /\ [][\A i \in 1..Len(stack) :
              i <= Len(stack') =>
                  IsPrefix(stack[i].content, stack'[i].content)]_vars

\* a caller whose first link failed has kept its own text, has gone on to
\* its second link, and that fetch succeeded
C3_Witness ==
    \E i \in 1..(Len(stack) - 1) :
        /\ stack[i].content = PageText(stack[i].url) \o Delimiter
        /\ Len(stack[i].called) = 2
        /\ stack[i + 1].fetch = "ok"
        /\ \E k \in DOMAIN fetched :
              fetched[k] = [url |-> stack[i].called[1], ok |-> FALSE]

\* C10: in a call at depth > 0 whose fetch succeeded, the links recursed into
\* are, once each and with depth - 1, the distinct resolved http(s) URLs that
\* do not have the current URL as a prefix; a call at depth <= 0 recurses
\* into nothing.
C10_LinksOncePerCall ==
    \A i \in 1..Len(stack) :
        LET f == stack[i]
            resolved == {urljoin(f.url, h) : h \in Range(Hrefs(graph, f.url))}
            outbound == {u \in resolved :
                            StartsWith(u, HTTP) /\ ~StartsWith(u, f.url)}
        IN /\ NoDuplicates(f.called)
           /\ Range(f.called) \cap f.links = {}
           /\ (f.fetch = "ok" /\ f.depth > 0) =>
                 Range(f.called) \cup f.links = outbound
           /\ (f.fetch # "ok" \/ f.depth <= 0) =>
                 (f.called = <<>> /\ f.links = {})
           /\ f.pc = "ret" => f.links = {}
           /\ i < Len(stack) =>
                 /\ f.called # <<>>
                 /\ stack[i + 1].url = f.called[Len(f.called)]
                 /\ stack[i + 1].depth = f.depth - 1

\* one crawl fetched the same page twice, from a page whose anchors repeat a
\* URL and include a continuation of its own URL
C10_Witness ==
    /\ Done
    /\ graph = GraphCycle
    /\ \E i, j \in DOMAIN fetched :
          i < j /\ fetched[i].ok /\ fetched[j].ok
                /\ fetched[i].url = fetched[j].url

(***************************************************************************)
(* Properties of the query pipeline, the session and the store.            *)
(***************************************************************************)
Queried == trace.kind = "query"

\* C4: with no store at the expected path, query returns the not-found
\* message and does not raise, whatever the other steps of the query do, the
\* construction of the embedding client included.
C4_NotFoundWhenNoStore ==
    (Queried /\ ~trace.present) =>
        (~trace.raised /\ trace.answer = NotFoundMsg)

\* C5: when the similarity search returns at least one chunk and no chunk
\* contains a keyword of the question, query returns the clarification
\* message and model.generate_content is not called.
C5_ClarifyWithoutGeneration ==
    (/\ Queried
     /\ trace.results # <<>>
     /\ extract_relevant_information(trace.question, trace.results) = <<>>)
    => (/\ ~trace.raised
        /\ trace.answer = ClarifyMsg
        /\ trace.gen = 0
        /\ trace.provider = "unused")

\* a query whose search results were all filtered out
C5_Witness ==
    /\ Queried
    /\ Len(trace.results) = 2
    /\ \A i \in DOMAIN trace.results :
          \A k \in Keywords(Lower(trace.question)) :
              ~Contains(Lower(trace.results[i]), k)
    /\ trace.answer = ClarifyMsg

\* C6: when the generation stage yields None (no candidates, or the provider
\* raises), query does not raise and answers with the generic error message;
\* an answer that starts with the found-header always ends with the
\* provider's text, never with None.
C6_NoneBecomesGenericError ==
    Queried =>
        /\ trace.provider \in {"empty", "raise"} =>
              (~trace.raised /\ trace.answer = OopsMsg)
        /\ \A i \in DOMAIN trace.answer : trace.answer[i] # "None"
        /\ (trace.answer # <<>> /\ trace.answer[1] = FoundHeader) =>
              (trace.provider = "text" /\ trace.answer = <<FoundHeader, GenText>>)

\* the provider was called, returned no candidates, and the answer is the
\* generic error message
C6_Witness ==
    /\ Queried
    /\ trace.gen = 1
    /\ trace.provider = "empty"
    /\ trace.answer = OopsMsg

\* C7: a submitted question appends to messages the user turn and then the
\* assistant turn with query's answer, and to chat_history the pair of the
\* question and that same answer; what was there before stays as a prefix.
C7_TurnAppends ==
    [][(pc = "ui" /\ trace'.kind = "query") =>
          /\ messages' = messages \o
                <<[role |-> "user", content |-> trace'.question],
                  [role |-> "assistant", content |-> trace'.answer]>>
          /\ chat_history' = chat_history \o
                << <<trace'.question, trace'.answer>> >>]_vars

\* a second question was answered after a first, different one
C7_Witness ==
    /\ Queried
    /\ Len(messages) = 4
    /\ Len(chat_history) = 2
    /\ chat_history[1] # chat_history[2]
    /\ messages[4].content = trace.answer
    /\ messages[1].content = chat_history[1][1]

\* C8: messages and chat_history are cleared together: a reset happens only
\* when messages is non-empty and empties both in one step, the button is
\* rendered only by a run that finds messages non-empty, and always
\* len(messages) = 2 * len(chat_history).
C8_ClearedTogether ==
    /\ [](Len(messages) = 2 * Len(chat_history))
    /\ [][(pc = "ui" /\ trace'.kind = "reset") =>
             (messages # <<>> /\ messages' = <<>> /\ chat_history' = <<>>)]_vars
    /\ [][(pc = "ui" /\ trace'.button) =>
             IF trace'.kind = "reset" THEN messages # <<>>
             ELSE messages' # <<>>]_vars

\* a reset has just emptied both sequences
C8_Witness ==
    /\ trace.kind = "reset"
    /\ pc = "idle"
    /\ messages = <<>>
    /\ chat_history = <<>>

\* C9: the store changes only when an indexing run has produced at least one
\* chunk, and then it becomes exactly the store of those chunks; a query and
\* a run with zero chunks leave it as it was.
C9_StoreChangesOnlyByIndexing ==
    [][/\ store' # store =>
             /\ pc = "index"
             /\ split_text(result) # <<>>
             /\ store' = [present |-> TRUE, docs |-> split_text(result)]
       /\ (pc = "ui" \/ (pc = "index" /\ split_text(result) = <<>>)) =>
             store' = store]_vars

\* a query was answered from a store that this run's indexing wrote in
\* place of the earlier one
C9_Witness ==
    /\ Queried
    /\ trace.stage = "generate"
    /\ result # <<>>
    /\ store = [present |-> TRUE, docs |-> split_text(result)]
    /\ store # OldStore

====
